---- MODULE Spec2Model ----
(***************************************************************************)
(* Newsroom content pipeline: the Story Store kept on a key-value backend  *)
(* (lib/data/stories.ts) and its queries, the daily-collection variant of  *)
(* the same store, the Filter agent that turns research articles into      *)
(* stories, and the Podcast Store with the PodcastEditor and PodcastVoice  *)
(* agents.                                                                 *)
(***************************************************************************)
EXTENDS Integers, Sequences, FiniteSets, TLC

\* ------------------------------------------------------------------------
\* Bounds of the model
\* ------------------------------------------------------------------------
NumLinks == 2
MaxStories == 2
MaxTime == 2
\* markAsPublished appends to the published list on every call; cap its length
MaxPublished == 3
TicksPerDay == 2

\* articles of one Filter batch
MaxBatch == 2

Links == 1..NumLinks

\* Filter runs that may exist; run 1 is the single writer
Runs == {1, 2}
\* kv.get() answers null for a key that was never set
NoId == 0
\* date_published is optional in StorySchema; NoDate is "absent"
NoDate == -1
\* audio_url is optional in PodcastTranscriptSchema; NoUrl is "absent"
NoUrl == -1

\* story.date_added.split("T")[0]: the calendar day of a timestamp
DayOf(t) == t \div TicksPerDay

Days == 0..DayOf(MaxTime)

VARIABLES
  story,        \* story:<id>      -> Story record (sequence indexed by id)
  dateIdx,      \* date:<day>      -> list of ids
  unpublished,  \* "unpublished"   -> list of ids
  published,    \* "published"     -> list of ids
  linkToId,     \* link_to_id:<l>  -> id
  now,          \* the clock read by new Date()
  lastOp,       \* the store operation that completed last, and its outcome
  wasEdited,    \* history: ids whose record had edited = true in an earlier state
  addedDay,     \* history: per id, the calendar day of date_added when it was added
  damaged,      \* ids whose story:<id> key is missing, or holds data failing StorySchema
  \* the daily-collection store ("stories-simple")
  collections,  \* day:<day>  -> StoriesCollection.stories
  links,        \* "links"    -> LinkLookup (link -> id)
  idsIssued,    \* number of ids generateId() has handed out
  \* the Filter agent, per run
  fpc,          \* where the handler is
  fbatch,       \* articles (their links), in batch order
  fidx,         \* index of the article the loop is at
  fcorpus,      \* publishedStories, as fetched before the loop
  fdate,        \* articleWithDate.date_added of the current article
  fout,         \* filteredStories
  flog,         \* history: what was decided for each article handled so far
  \* the Podcast Store and the podcast agents
  transcripts,  \* <YYYY-MM-DD> -> PodcastTranscript (absent: empty sequence)
  generated,    \* number of createPodcastTranscript() calls made so far
  presp,        \* what the podcast agent that ran last answered
  \* one call of getDatesInRange
  qstart,       \* startDate
  qend,         \* endDate
  qpc,          \* "call" before the function ran, "return" after
  qdates,       \* the dates it returned
  \* the EditorInChief run, the research store, addStory calls in progress
  chief,        \* where the EditorInChief handler is, and the stages it called
  research,     \* the days that hold a research snapshot, per implementation
  adding,       \* per run: the addStory call in progress
  voice         \* the transcript EditorInChief holds to hand to PodcastVoice

storeVars == <<story, dateIdx, unpublished, published, linkToId>>

indexedVars ==
  <<story, dateIdx, unpublished, published, linkToId, wasEdited, addedDay,
    damaged>>

dailyVars == <<collections, links, idsIssued>>

filterVars == <<fpc, fbatch, fidx, fcorpus, fdate, fout, flog>>

podcastVars == <<transcripts, generated, presp>>

queryVars == <<qstart, qend, qpc, qdates>>

pipelineVars == <<chief, research, adding, voice>>

vars == <<story, dateIdx, unpublished, published, linkToId, now, lastOp,
          wasEdited, addedDay, damaged, collections, links, idsIssued,
          fpc, fbatch, fidx, fcorpus, fdate, fout, flog,
          transcripts, generated, presp, qstart, qend, qpc, qdates,
          chief, research, adding, voice>>

\* ------------------------------------------------------------------------
\* Story records (StorySchema); only the fields the store logic reads
\* ------------------------------------------------------------------------
\* The stories a caller hands to add/update at time t: dated t, and carrying
\* date_published exactly when they carry published = true (as the Filter and
\* Editor agents build them).
StoryInputs(t) ==
  {s \in [link : Links, published : BOOLEAN, edited : BOOLEAN,
          date_added : {t}, date_published : {NoDate, t}] :
     (s.date_published # NoDate) <=> s.published}

\* generateId(): a fresh id for every call
generateId == Len(story) + 1

Op(name, l, ok) ==
  [op |-> name, link |-> l, ok |-> ok]

\* ids whose record had edited = true while it was still unpublished, and
\* the day each id was added under
History ==
  /\ wasEdited' = wasEdited \cup
       {i \in DOMAIN story : story[i].edited /\ ~story[i].published}
  /\ addedDay' = [i \in DOMAIN story' |->
                    IF i \in DOMAIN addedDay THEN addedDay[i]
                    ELSE DayOf(story'[i].date_added)]

InSeq(x, seq) == \E k \in DOMAIN seq : seq[k] = x

Count(x, seq) == Cardinality({k \in DOMAIN seq : seq[k] = x})

\* ------------------------------------------------------------------------
\* lib/data/stories.ts
\* ------------------------------------------------------------------------
exists(l) == linkToId[l] # NoId

\* kv.get(story key) answers data
stored(id) == id \in DOMAIN story /\ id \notin damaged.missing

\* StorySchema.safeParse(data).success
parses(id) == id \notin damaged.invalid

\* kv.set(story key, story) with a Story: the key exists and holds valid data
rewritten(id) ==
  [missing |-> damaged.missing \ {id}, invalid |-> damaged.invalid \ {id}]

getStory(l) ==
  IF linkToId[l] = NoId \/ ~stored(linkToId[l]) \/ ~parses(linkToId[l])
  THEN <<>>
  ELSE <<story[linkToId[l]]>>

\* the writes of addStory, in the order record, date index, unpublished, link
addStoryWrites(s) ==
  LET id == generateId IN
  /\ story' = Append(story, s)
  /\ dateIdx' = [dateIdx EXCEPT ![DayOf(s.date_added)] = Append(@, id)]
  /\ unpublished' = Append(unpublished, id)
  /\ published' = published
  /\ linkToId' = [linkToId EXCEPT ![s.link] = id]

\* a markAsPublished that leaves the id in the unpublished list
markAsPublishedKeepsUnpublished(l) ==
  LET id == linkToId[l] IN
  /\ story' = [story EXCEPT ![id].published = TRUE, ![id].date_published = now]
  /\ published' = Append(published, id)
  /\ UNCHANGED <<unpublished, dateIdx, linkToId>>

\* the writes of markAsPublished when the link resolves to a stored record
markAsPublishedWrites(l) ==
  LET id == linkToId[l] IN
  /\ story' = [story EXCEPT ![id].published = TRUE, ![id].date_published = now]
  /\ unpublished' = SelectSeq(unpublished, LAMBDA item : item # id)
  /\ published' = Append(published, id)
  /\ UNCHANGED <<dateIdx, linkToId>>

AddStory(s) ==
  /\ Len(story) < MaxStories
  /\ addStoryWrites(s)
  /\ lastOp' = Op("addStory", s.link, TRUE)
  /\ History
  /\ UNCHANGED damaged
  /\ UNCHANGED <<now, dailyVars, filterVars, podcastVars, queryVars, pipelineVars>>

MarkAsPublished(l) ==
  /\ Len(published) < MaxPublished
  /\ IF linkToId[l] = NoId \/ ~stored(linkToId[l])
     THEN UNCHANGED storeVars
     ELSE markAsPublishedWrites(l)
  /\ lastOp' = Op("markAsPublished", l, TRUE)
  /\ History
  /\ UNCHANGED damaged
  /\ UNCHANGED <<now, dailyVars, filterVars, podcastVars, queryVars, pipelineVars>>

\* an updateStory that stores the record of an unknown link as a new story
UpdateStoryUpserts(s) ==
  /\ IF linkToId[s.link] = NoId
     THEN /\ Len(story) < MaxStories
          /\ addStoryWrites(s)
          /\ lastOp' = Op("updateStory", s.link, TRUE)
          /\ UNCHANGED damaged
     ELSE /\ story' = [story EXCEPT ![linkToId[s.link]] = s]
          /\ UNCHANGED <<dateIdx, unpublished, published, linkToId>>
          /\ lastOp' = Op("updateStory", s.link, TRUE)
          /\ damaged' = rewritten(linkToId[s.link])
  /\ History
  /\ UNCHANGED <<now, dailyVars, filterVars, podcastVars, queryVars, pipelineVars>>

\* an updateStory that files the id under the status the new record carries
UpdateStoryRefiles(s) ==
  /\ IF linkToId[s.link] = NoId
     THEN /\ UNCHANGED storeVars
          /\ lastOp' = Op("updateStory", s.link, FALSE)
          /\ UNCHANGED damaged
     ELSE /\ story' = [story EXCEPT ![linkToId[s.link]] = s]
          /\ unpublished' = IF s.published
                            THEN SelectSeq(unpublished, LAMBDA i : i # linkToId[s.link])
                            ELSE unpublished
          /\ published' = IF s.published /\ ~InSeq(linkToId[s.link], published)
                          THEN Append(published, linkToId[s.link])
                          ELSE published
          /\ UNCHANGED <<dateIdx, linkToId>>
          /\ lastOp' = Op("updateStory", s.link, TRUE)
          /\ damaged' = rewritten(linkToId[s.link])
  /\ History
  /\ UNCHANGED <<now, dailyVars, filterVars, podcastVars, queryVars, pipelineVars>>

UpdateStory(s) ==
  /\ IF linkToId[s.link] = NoId
     THEN /\ UNCHANGED storeVars
          /\ lastOp' = Op("updateStory", s.link, FALSE)
          /\ UNCHANGED damaged
     ELSE /\ story' = [story EXCEPT ![linkToId[s.link]] = s]
          /\ UNCHANGED <<dateIdx, unpublished, published, linkToId>>
          /\ lastOp' = Op("updateStory", s.link, TRUE)
          /\ damaged' = rewritten(linkToId[s.link])
  /\ History
  /\ UNCHANGED <<now, dailyVars, filterVars, podcastVars, queryVars, pipelineVars>>

\* lib/data/stories.ts on Redis sets (the store the Editor agent imports):
\* SADD adds a member only when it is absent
sadd(seq, id) == IF InSeq(id, seq) THEN seq ELSE Append(seq, id)

redisMarkAsPublished(l) ==
  LET id == linkToId[l] IN
  IF id = NoId \/ ~stored(id) \/ ~parses(id)
  THEN UNCHANGED storeVars
  ELSE /\ story' = [story EXCEPT ![id].published = TRUE,
                                  ![id].date_published = now]
       /\ unpublished' = SelectSeq(unpublished, LAMBDA item : item # id)
       /\ published' = sadd(published, id)
       /\ UNCHANGED <<dateIdx, linkToId>>

\* Editor agent: store the enhanced story.  A story unknown to the store is
\* added as edited and published; a known one is only marked published.
UpdateStoryWithContent(l) ==
  /\ IF ~exists(l)
     THEN /\ Len(story) < MaxStories
          /\ addStoryWrites([link |-> l, published |-> TRUE, edited |-> TRUE,
                             date_added |-> now, date_published |-> now])
     ELSE redisMarkAsPublished(l)
  /\ lastOp' = Op("updateStoryWithContent", l, TRUE)
  /\ History
  /\ UNCHANGED damaged
  /\ UNCHANGED <<now, dailyVars, filterVars, podcastVars, queryVars, pipelineVars>>

\* updateStory with an object that fails StorySchema: nothing validates it
\* before kv.set
UpdateStoryInvalid(l) ==
  /\ IF linkToId[l] = NoId
     THEN /\ lastOp' = Op("updateStoryInvalid", l, FALSE)
          /\ UNCHANGED damaged
     ELSE /\ lastOp' = Op("updateStoryInvalid", l, TRUE)
          /\ damaged' = [missing |-> damaged.missing \ {linkToId[l]},
                         invalid |-> damaged.invalid \cup {linkToId[l]}]
  /\ UNCHANGED storeVars
  /\ History
  /\ UNCHANGED <<now, dailyVars, filterVars, podcastVars, queryVars, pipelineVars>>

\* the backend no longer holds the story:<id> key of a record the indexes
\* still name
RecordLost(id) ==
  /\ stored(id)
  /\ damaged' = [missing |-> damaged.missing \cup {id},
                 invalid |-> damaged.invalid \ {id}]
  /\ lastOp' = Op("recordLost", 0, TRUE)
  /\ UNCHANGED storeVars
  /\ History
  /\ UNCHANGED <<now, dailyVars, filterVars, podcastVars, queryVars, pipelineVars>>

\* ------------------------------------------------------------------------
\* addStory, await by await, for runs that share the backend.  adding[r]
\* holds the call's locals: the id, the story, and the list read last.
\* ------------------------------------------------------------------------
addStep(r, pc, ids) == [adding EXCEPT ![r].pc = pc, ![r].ids = ids]

addFrame ==
  /\ History
  /\ UNCHANGED <<damaged, chief, research, voice, now, dailyVars, filterVars,
                 podcastVars, queryVars>>

\* an addStory whose first write also sets the link entry
AddSetStoryWithLink(r, s) ==
  /\ adding[r].pc = "idle"
  /\ Len(story) < MaxStories
  /\ story' = Append(story, s)
  /\ linkToId' = [linkToId EXCEPT ![s.link] = generateId]
  /\ adding' = [adding EXCEPT ![r] =
                  [pc |-> "getDate", id |-> generateId, story |-> s, ids |-> <<>>]]
  /\ UNCHANGED <<dateIdx, unpublished, published, lastOp>>
  /\ addFrame

\* const id = generateId(); await kv.set(PREFIX, storyKey, story)
AddSetStory(r, s) ==
  /\ adding[r].pc = "idle"
  /\ Len(story) < MaxStories
  /\ story' = Append(story, s)
  /\ adding' = [adding EXCEPT ![r] =
                  [pc |-> "getDate", id |-> generateId, story |-> s, ids |-> <<>>]]
  /\ UNCHANGED <<dateIdx, unpublished, published, linkToId, lastOp>>
  /\ addFrame

\* const dateSet = await kv.get(PREFIX, dateKey)
AddGetDate(r) ==
  /\ adding[r].pc = "getDate"
  /\ adding' = addStep(r, "setDate", dateIdx[DayOf(adding[r].story.date_added)])
  /\ UNCHANGED <<storeVars, lastOp>>
  /\ addFrame

\* dateIds.push(id); await kv.set(PREFIX, dateKey, dateIds)
AddSetDate(r) ==
  /\ adding[r].pc = "setDate"
  /\ dateIdx' = [dateIdx EXCEPT ![DayOf(adding[r].story.date_added)] =
                   Append(adding[r].ids, adding[r].id)]
  /\ adding' = addStep(r, "getUnpublished", <<>>)
  /\ UNCHANGED <<story, unpublished, published, linkToId, lastOp>>
  /\ addFrame

\* const unpublishedSet = await kv.get(PREFIX, getUnpublishedKey())
AddGetUnpublished(r) ==
  /\ adding[r].pc = "getUnpublished"
  /\ adding' = addStep(r, "setUnpublished", unpublished)
  /\ UNCHANGED <<storeVars, lastOp>>
  /\ addFrame

\* an append the backend makes on the list it holds
appendUnpublished(r) == unpublished' = Append(unpublished, adding[r].id)

\* unpublishedIds.push(id); await kv.set(PREFIX, getUnpublishedKey(),
\* unpublishedIds): the list read before, with the id pushed
setUnpublished(r) == unpublished' = Append(adding[r].ids, adding[r].id)

AddSetUnpublished(r) ==
  /\ adding[r].pc = "setUnpublished"
  /\ setUnpublished(r)
  /\ adding' = addStep(r, "setLink", <<>>)
  /\ UNCHANGED <<story, dateIdx, published, linkToId, lastOp>>
  /\ addFrame

\* await kv.set(PREFIX, linkKey, id), and the call returns
AddSetLink(r) ==
  /\ adding[r].pc = "setLink"
  /\ linkToId' = [linkToId EXCEPT ![adding[r].story.link] = adding[r].id]
  /\ lastOp' = Op("addStory", adding[r].story.link, TRUE)
  /\ adding' = [adding EXCEPT ![r] = [pc |-> "idle"]]
  /\ UNCHANGED <<story, dateIdx, unpublished, published>>
  /\ addFrame

\* ------------------------------------------------------------------------
\* markAsPublished, await by await.  adding[r] holds the call's locals: the
\* id, the link, the list read last, and (history) whether the record was
\* published before the call.
\* ------------------------------------------------------------------------
\* the two kv.get that find the record, and kv.set(PREFIX, storyKey, story)
MarkSetStory(r, l) ==
  /\ adding[r].pc = "idle"
  /\ Len(published) < MaxPublished
  /\ linkToId[l] # NoId
  /\ stored(linkToId[l])
  /\ story' = [story EXCEPT ![linkToId[l]].published = TRUE,
                            ![linkToId[l]].date_published = now]
  /\ adding' = [adding EXCEPT ![r] =
                  [pc |-> "markGetUnpublished", id |-> linkToId[l], link |-> l,
                   ids |-> <<>>, was |-> story[linkToId[l]].published]]
  /\ UNCHANGED <<dateIdx, unpublished, published, linkToId, lastOp>>
  /\ addFrame

\* const unpublishedSet = await kv.get(PREFIX, getUnpublishedKey())
MarkGetUnpublished(r) ==
  /\ adding[r].pc = "markGetUnpublished"
  /\ adding' = addStep(r, "markSetUnpublished", unpublished)
  /\ UNCHANGED <<storeVars, lastOp>>
  /\ addFrame

\* a move from the unpublished to the published list in one write
MarkMovesAtOnce(r) ==
  /\ adding[r].pc = "markSetUnpublished"
  /\ unpublished' = SelectSeq(adding[r].ids, LAMBDA item : item # adding[r].id)
  /\ published' = Append(published, adding[r].id)
  /\ adding' = addStep(r, "markGetPublished", <<>>)
  /\ UNCHANGED <<story, dateIdx, linkToId, lastOp>>
  /\ addFrame

\* kv.set(PREFIX, getUnpublishedKey(), updatedUnpublishedIds)
MarkSetUnpublished(r) ==
  /\ adding[r].pc = "markSetUnpublished"
  /\ unpublished' = SelectSeq(adding[r].ids, LAMBDA item : item # adding[r].id)
  /\ adding' = addStep(r, "markGetPublished", <<>>)
  /\ UNCHANGED <<story, dateIdx, published, linkToId, lastOp>>
  /\ addFrame

\* const publishedSet = await kv.get(PREFIX, getPublishedKey())
MarkGetPublished(r) ==
  /\ adding[r].pc = "markGetPublished"
  /\ adding' = addStep(r, "markSetPublished", published)
  /\ UNCHANGED <<storeVars, lastOp>>
  /\ addFrame

\* publishedIds.push(id); kv.set(PREFIX, getPublishedKey(), publishedIds),
\* and the call returns
MarkSetPublished(r) ==
  /\ adding[r].pc = "markSetPublished"
  /\ published' = Append(adding[r].ids, adding[r].id)
  /\ lastOp' = Op("markAsPublished", adding[r].link, TRUE)
  /\ adding' = [adding EXCEPT ![r] = [pc |-> "idle"]]
  /\ UNCHANGED <<story, dateIdx, unpublished, linkToId>>
  /\ addFrame

\* the process running addStory or markAsPublished stops between two awaits:
\* the writes made so far stay, the others are never made
Stops(r) ==
  /\ adding[r].pc # "idle"
  /\ adding' = [adding EXCEPT ![r] = [pc |-> "idle"]]
  /\ lastOp' = Op("stopped", 0, FALSE)
  /\ UNCHANGED storeVars
  /\ addFrame

\* Time passes between operations
Tick ==
  /\ now < MaxTime
  /\ now' = now + 1
  /\ UNCHANGED <<indexedVars, lastOp, dailyVars, filterVars,
               podcastVars, queryVars, pipelineVars>>


\* ------------------------------------------------------------------------
\* lib/data/stories.ts: the queries.  A query is computed as the list of ids
\* whose records it returns, in the order it returns them.
\* ------------------------------------------------------------------------
\* formatDate(date): date.toISOString().split("T")[0]
formatDate(t) == DayOf(t)

\* kv.get() of a day's id list; a day nothing was added under has no key
dateIndex(d) == IF d \in DOMAIN dateIdx THEN dateIdx[d] ELSE <<>>

RECURSIVE datesUpTo(_, _)
\* the while loop of getDatesInRange: currentDate keeps startDate's time of
\* day, and setDate(getDate() + 1) moves it on by one day
datesUpTo(currentDate, endDate) ==
  IF currentDate <= endDate
  THEN <<formatDate(currentDate)>> \o datesUpTo(currentDate + TicksPerDay, endDate)
  ELSE <<>>

RECURSIVE datesBefore(_, _)
datesBefore(currentDate, endDate) ==
  IF currentDate < endDate
  THEN <<formatDate(currentDate)>> \o datesBefore(currentDate + TicksPerDay, endDate)
  ELSE <<>>

\* a getDatesInRange that stops before endDate
getDatesInRangeExclusive(startDate, endDate) == datesBefore(startDate, endDate)

getDatesInRange(startDate, endDate) == datesUpTo(startDate, endDate)

RECURSIVE idsOfDates(_)
\* allIds.push(...dateIds) for each date, in date order
idsOfDates(dates) ==
  IF dates = <<>> THEN <<>>
  ELSE dateIndex(Head(dates)) \o idsOfDates(Tail(dates))

RECURSIVE unique(_)
\* [...new Set(allIds)]: first occurrences, in order
unique(seq) ==
  IF seq = <<>> THEN <<>>
  ELSE LET rest == unique(SubSeq(seq, 1, Len(seq) - 1))
           x == seq[Len(seq)]
       IN IF InSeq(x, rest) THEN rest ELSE Append(rest, x)

\* a getStoriesByIds that returns whatever the index names
getStoriesByIdsUnchecked(ids) == SelectSeq(ids, LAMBDA id : id \in DOMAIN story)

\* getStoriesByIds: ids without a stored record, or with a record failing
\* the schema, are dropped
getStoriesByIds(ids) == SelectSeq(ids, LAMBDA id : stored(id) /\ parses(id))

\* insertion that puts the oldest first
insertOldestFirst(x, sorted, date) ==
  LET n == Cardinality({j \in DOMAIN sorted : date[sorted[j]] <= date[x]})
  IN SubSeq(sorted, 1, n) \o <<x>> \o SubSeq(sorted, n + 1, Len(sorted))

\* x goes behind every element that is not older than x
insertNewestFirst(x, sorted, date) ==
  LET n == Cardinality({j \in DOMAIN sorted : date[sorted[j]] >= date[x]})
  IN SubSeq(sorted, 1, n) \o <<x>> \o SubSeq(sorted, n + 1, Len(sorted))

RECURSIVE sortNewestFirst(_, _)
\* stories.sort((a, b) => date(b) - date(a)): a stable sort, newest first
sortNewestFirst(ids, date) ==
  IF ids = <<>> THEN <<>>
  ELSE insertNewestFirst(ids[Len(ids)],
                         sortNewestFirst(SubSeq(ids, 1, Len(ids) - 1), date),
                         date)

\* the sort keys, per id
byDateAdded == [id \in DOMAIN story |-> story[id].date_added]

\* a.date_published || a.date_added
byDatePublished ==
  [id \in DOMAIN story |->
     IF story[id].date_published # NoDate THEN story[id].date_published
     ELSE story[id].date_added]

\* options of getStoriesByDateRange; limit 0 stands for "no limit given"
QueryOptions ==
  [publishedOnly : BOOLEAN, unpublishedOnly : BOOLEAN, limit : 0..MaxStories]

NoOptions == [publishedOnly |-> FALSE, unpublishedOnly |-> FALSE, limit |-> 0]

slice(seq, n) == SubSeq(seq, 1, IF n < Len(seq) THEN n ELSE Len(seq))

getStoriesByDateRange(startDate, endDate, options) ==
  LET dates == getDatesInRange(startDate, endDate)
      uniqueIds == unique(idsOfDates(dates))
      statusIds == IF options.publishedOnly THEN published ELSE unpublished
      filteredIds ==
        IF options.publishedOnly \/ options.unpublishedOnly
        THEN SelectSeq(uniqueIds, LAMBDA id : InSeq(id, statusIds))
        ELSE uniqueIds
      limitedIds ==
        IF options.limit > 0 THEN slice(filteredIds, options.limit)
        ELSE filteredIds
  IN sortNewestFirst(getStoriesByIds(limitedIds),
                     IF options.publishedOnly THEN byDatePublished
                     ELSE byDateAdded)

getUnpublishedStories ==
  sortNewestFirst(getStoriesByIds(unpublished), byDateAdded)

getPublishedStories ==
  sortNewestFirst(getStoriesByIds(published), byDatePublished)

getUneditedUnpublishedStories ==
  sortNewestFirst(
    SelectSeq(getUnpublishedStories, LAMBDA id : ~story[id].edited),
    byDateAdded)

getEditedUnpublishedStories ==
  sortNewestFirst(
    SelectSeq(getUnpublishedStories,
              LAMBDA id : story[id].edited /\ ~story[id].published),
    byDateAdded)

\* ------------------------------------------------------------------------
\* The daily-collection store: stories kept per day under day:<date>, and one
\* lookup table from link to id under "links"
\* ------------------------------------------------------------------------
\* getStory and updateStory look for a story in today's and the 6 previous
\* days' collections
SearchWindow == 7

today == DayOf(now)

getStoriesForDate(d) == IF d \in Days THEN collections[d] ELSE <<>>

dailyExists(l) == links[l] # NoId

\* the dates today, today - 1, ..., in which a story with this id is found
recentDatesIn(cols, id) ==
  {d \in Days : /\ d <= today
                /\ today - d < SearchWindow
                /\ \E k \in DOMAIN cols[d] : cols[d][k].id = id}

recentDatesOf(id) == recentDatesIn(collections, id)

\* the loop tries today first: the latest such date wins
firstRecentDateIn(cols, id) ==
  CHOOSE d \in recentDatesIn(cols, id) : \A e \in recentDatesIn(cols, id) : e <= d

firstRecentDateOf(id) == firstRecentDateIn(collections, id)

indexOfId(seq, id) == CHOOSE k \in DOMAIN seq : seq[k].id = id

\* getStory against the store contents (cols, lks)
getStoryIn(cols, lks, l) ==
  IF lks[l] = NoId \/ recentDatesIn(cols, lks[l]) = {}
  THEN <<>>
  ELSE LET d == firstRecentDateIn(cols, lks[l]) IN
       <<cols[d][indexOfId(cols[d], lks[l])]>>

dailyGetStory(l) == getStoryIn(collections, links, l)

dailyGetPublishedStories(d) ==
  SelectSeq(getStoriesForDate(d), LAMBDA st : st.published)

\* an addStory that leaves the link lookup as it is
dailyAddStoryUnlinked(sd) ==
  LET id == idsIssued + 1
      st == [id |-> id, link |-> sd.link, published |-> sd.published,
             edited |-> sd.edited, date_added |-> sd.date_added,
             date_published |-> sd.date_published]
  IN /\ collections' = [collections EXCEPT ![DayOf(sd.date_added)] = Append(@, st)]
     /\ links' = links
     /\ idsIssued' = id

\* an addStory that writes nothing when the link is in the lookup
dailyAddStoryOnce(sd) ==
  IF links[sd.link] # NoId
  THEN UNCHANGED dailyVars
  ELSE LET id == idsIssued + 1
           st == [id |-> id, link |-> sd.link, published |-> sd.published,
                  edited |-> sd.edited, date_added |-> sd.date_added,
                  date_published |-> sd.date_published]
       IN /\ collections' = [collections EXCEPT ![DayOf(sd.date_added)] = Append(@, st)]
          /\ links' = [links EXCEPT ![sd.link] = id]
          /\ idsIssued' = id

\* addStory: push onto the day's collection, then set lookup[link] = id
dailyAddStoryWrites(sd) ==
  LET id == idsIssued + 1
      st == [id |-> id, link |-> sd.link, published |-> sd.published,
             edited |-> sd.edited, date_added |-> sd.date_added,
             date_published |-> sd.date_published]
  IN /\ collections' = [collections EXCEPT ![DayOf(sd.date_added)] = Append(@, st)]
     /\ links' = [links EXCEPT ![sd.link] = id]
     /\ idsIssued' = id

DailyAddStory(sd) ==
  /\ idsIssued < MaxStories
  /\ dailyAddStoryWrites(sd)
  /\ lastOp' = Op("dailyAddStory", sd.link, TRUE)
  /\ UNCHANGED <<now, indexedVars, filterVars, podcastVars, queryVars, pipelineVars>>

\* Partial<Story> updates: a record over a subset of the fields
StoryFields == {"id", "link", "published", "edited", "date_added", "date_published"}

assign(st, updates) ==
  [f \in StoryFields |-> IF f \in DOMAIN updates THEN updates[f] ELSE st[f]]

\* Object.assign(story, updates); if (!updates.edited) story.edited = true
applyUpdates(st, updates) ==
  IF "edited" \in DOMAIN updates /\ updates["edited"]
  THEN assign(st, updates)
  ELSE [assign(st, updates) EXCEPT !["edited"] = TRUE]

\* updateStory's writes; ok is whether it returned without throwing
dailyUpdateStoryWrites(l, updates, ok) ==
  IF links[l] = NoId \/ recentDatesOf(links[l]) = {}
  THEN /\ ok = FALSE
       /\ UNCHANGED dailyVars
  ELSE LET d == firstRecentDateOf(links[l])
           k == indexOfId(collections[d], links[l])
       IN /\ ok = TRUE
          /\ collections' = [collections EXCEPT
                               ![d][k] = applyUpdates(collections[d][k], updates)]
          /\ UNCHANGED <<links, idsIssued>>

\* the updates callers pass: any of edited and published, with date_published
\* when published is set to true
UpdateInputs(t) ==
  {[edited |-> e] : e \in BOOLEAN}
    \cup {[published |-> FALSE]}
    \cup {[published |-> TRUE, date_published |-> t]}
    \cup {[edited |-> e, published |-> FALSE] : e \in BOOLEAN}

DailyUpdateStory(l, updates) ==
  /\ \E ok \in BOOLEAN :
       /\ dailyUpdateStoryWrites(l, updates, ok)
       /\ lastOp' = Op("dailyUpdateStory", l, ok)
  /\ UNCHANGED <<now, indexedVars, filterVars, podcastVars, queryVars, pipelineVars>>

\* markAsPublished = updateStory(link, {published: true, date_published: now})
DailyMarkAsPublished(l) ==
  /\ \E ok \in BOOLEAN :
       /\ dailyUpdateStoryWrites(l, [published |-> TRUE, date_published |-> now], ok)
       /\ lastOp' = Op("dailyMarkAsPublished", l, ok)
  /\ UNCHANGED <<now, indexedVars, filterVars, podcastVars, queryVars, pipelineVars>>

\* saveStoriesForDate and saveLinkLookup set their keys with
\* { ttl: 365 * 24 * 60 * 60 }: one year, in ticks
StoryTtl == 365 * TicksPerDay

\* A year passes in which the store is not written: every key of the
\* daily-collection store was set at or before now, so the backend has
\* dropped them all by now + StoryTtl.  The indexed store sets no TTL.
TtlElapses ==
  /\ now <= MaxTime
  /\ now' = now + StoryTtl
  /\ collections' = [d \in Days |-> <<>>]
  /\ links' = [l \in Links |-> NoId]
  /\ UNCHANGED <<idsIssued, indexedVars, lastOp, filterVars, podcastVars,
                 queryVars, pipelineVars>>


\* The days of getStory's search window pass in which the store is not
\* written
WindowElapses ==
  /\ now <= MaxTime
  /\ now' = now + SearchWindow * TicksPerDay
  /\ UNCHANGED <<dailyVars, indexedVars, lastOp, filterVars, podcastVars,
                 queryVars, pipelineVars>>

\* ------------------------------------------------------------------------
\* The Filter agent
\* ------------------------------------------------------------------------
\* confidences are in hundredths: 0.59, 0.6, 0.61
Confidences == {59, 60, 61}

RelevanceThreshold == 60

SimilarityThreshold == 60

\* isStorySimilar answers confidence 1 when there is nothing to compare with
FullConfidence == 100

RelevanceOutcomes == [isRelevant : BOOLEAN, confidence : Confidences]

\* similarToIndex 0 stands for an absent index
SimilarityOutcomes(n) ==
  [isSimilar : BOOLEAN, confidence : Confidences, similarToIndex : 0..(n + 1)]

NoRelevance == [isRelevant |-> FALSE, confidence |-> NoDate]

NoSimilarity == [isSimilar |-> FALSE, confidence |-> NoDate]

Batches == UNION {[1..n -> Links] : n \in 0..MaxBatch}

\* if (!relevance.isRelevant || relevance.confidence < 0.6) continue
relevanceRejectsAtThreshold(rel) ==
  ~rel.isRelevant \/ rel.confidence <= RelevanceThreshold

relevanceRejects(rel) ==
  ~rel.isRelevant \/ rel.confidence < RelevanceThreshold

\* if (similarity.isSimilar && similarity.confidence > 0.6) continue
similarityRejects(sim) ==
  sim.isSimilar /\ sim.confidence > SimilarityThreshold

\* isStorySimilar: no classifier call on an empty corpus; otherwise the call
\* may fail, and an index outside the corpus makes the headline lookup throw
isStorySimilar(corpus, fails, out) ==
  IF Len(corpus) = 0
  THEN [threw |-> FALSE, isSimilar |-> FALSE, confidence |-> FullConfidence]
  ELSE IF fails \/ out.similarToIndex > Len(corpus)
  THEN [threw |-> TRUE, isSimilar |-> FALSE, confidence |-> NoDate]
  ELSE [threw |-> FALSE, isSimilar |-> out.isSimilar, confidence |-> out.confidence]

\* a loop that walks the batch from its end
articleFromEnd(r) == fbatch[r][Len(fbatch[r]) + 1 - fidx[r]]

\* for (const article of articles)
article(r) == fbatch[r][fidx[r]]

\* a similarity check that fetches the published stories again
similarityCorpusFresh(r) == dailyGetPublishedStories(today)

\* isStorySimilar(articleWithDate, publishedStories)
similarityCorpus(r) == fcorpus[r]

\* the history entry of the article being handled is the last one
logLast(r, f, v) == [flog EXCEPT ![r][Len(flog[r])][f] = v]

nextArticle(r) ==
  /\ fidx' = [fidx EXCEPT ![r] = @ + 1]
  /\ fpc' = [fpc EXCEPT ![r] = "exists"]

\* the handler up to the loop: an empty batch is answered at once, otherwise
\* today's published stories are fetched
FilterStart(r, batch) ==
  /\ fpc[r] = "idle"
  /\ fbatch' = [fbatch EXCEPT ![r] = batch]
  /\ fout' = [fout EXCEPT ![r] = <<>>]
  /\ flog' = [flog EXCEPT ![r] = <<>>]
  /\ IF Len(batch) = 0
     THEN /\ fpc' = [fpc EXCEPT ![r] = "done"]
          /\ UNCHANGED <<fidx, fcorpus>>
     ELSE /\ fcorpus' = [fcorpus EXCEPT ![r] = dailyGetPublishedStories(today)]
          /\ fidx' = [fidx EXCEPT ![r] = 1]
          /\ fpc' = [fpc EXCEPT ![r] = "exists"]
  /\ UNCHANGED <<fdate, now, lastOp, indexedVars, dailyVars,
               podcastVars, queryVars, pipelineVars>>

\* a loop body that classifies the article whether or not its link is known
FilterExistsUnchecked(r) ==
  /\ fpc[r] = "exists"
  /\ fidx[r] <= Len(fbatch[r])
  /\ fdate' = [fdate EXCEPT ![r] = now]
  /\ LET e == [link |-> article(r), existed |-> dailyExists(article(r)),
               rel |-> NoRelevance, sim |-> NoSimilarity, corpus |-> <<>>,
               created |-> FALSE, decided |-> dailyExists(article(r))]
     IN flog' = [flog EXCEPT ![r] = Append(@, e)]
  /\ fpc' = [fpc EXCEPT ![r] = "relevance"]
  /\ UNCHANGED fidx
  /\ UNCHANGED <<fbatch, fcorpus, fout, now, lastOp, indexedVars, dailyVars,
               podcastVars, queryVars, pipelineVars>>

\* top of the loop body: stamp the article, skip it when its link is known
FilterExists(r) ==
  /\ fpc[r] = "exists"
  /\ fidx[r] <= Len(fbatch[r])
  /\ fdate' = [fdate EXCEPT ![r] = now]
  /\ LET e == [link |-> article(r), existed |-> dailyExists(article(r)),
               rel |-> NoRelevance, sim |-> NoSimilarity, corpus |-> <<>>,
               created |-> FALSE, decided |-> dailyExists(article(r))]
     IN flog' = [flog EXCEPT ![r] = Append(@, e)]
  /\ IF dailyExists(article(r))
     THEN nextArticle(r)
     ELSE /\ fpc' = [fpc EXCEPT ![r] = "relevance"]
          /\ UNCHANGED fidx
  /\ UNCHANGED <<fbatch, fcorpus, fout, now, lastOp, indexedVars, dailyVars,
               podcastVars, queryVars, pipelineVars>>

\* isStoryRelevant and the relevance test; a failed call leaves the loop
FilterRelevance(r, fails, rel) ==
  /\ fpc[r] = "relevance"
  /\ IF fails
     THEN /\ fpc' = [fpc EXCEPT ![r] = "failed"]
          /\ UNCHANGED <<fidx, flog>>
     ELSE IF relevanceRejects(rel)
     THEN /\ flog' = [logLast(r, "rel", rel) EXCEPT ![r][Len(flog[r])].decided = TRUE]
          /\ nextArticle(r)
     ELSE /\ flog' = logLast(r, "rel", rel)
          /\ fpc' = [fpc EXCEPT ![r] = "similarity"]
          /\ UNCHANGED fidx
  /\ UNCHANGED <<fbatch, fcorpus, fdate, fout, now, lastOp, indexedVars, dailyVars,
               podcastVars, queryVars, pipelineVars>>

\* isStorySimilar against the corpus fetched before the loop
FilterSimilarity(r, fails, out) ==
  /\ fpc[r] = "similarity"
  /\ LET res == isStorySimilar(similarityCorpus(r), fails, out)
         sim == [isSimilar |-> res.isSimilar, confidence |-> res.confidence]
         checked == [logLast(r, "sim", sim)
                       EXCEPT ![r][Len(flog[r])].corpus = similarityCorpus(r)]
     IN IF res.threw
        THEN /\ fpc' = [fpc EXCEPT ![r] = "failed"]
             /\ UNCHANGED <<fidx, flog>>
        ELSE IF similarityRejects(sim)
        THEN /\ flog' = [checked EXCEPT ![r][Len(flog[r])].decided = TRUE]
             /\ nextArticle(r)
        ELSE /\ flog' = checked
             /\ fpc' = [fpc EXCEPT ![r] = "add"]
             /\ UNCHANGED fidx
  /\ UNCHANGED <<fbatch, fcorpus, fdate, fout, now, lastOp, indexedVars, dailyVars,
               podcastVars, queryVars, pipelineVars>>

\* stories.add, then stories.get to pick up the stored story with its id
FilterAdd(r) ==
  /\ fpc[r] = "add"
  /\ idsIssued < MaxStories
  /\ dailyAddStoryWrites([link |-> article(r), published |-> FALSE,
                          edited |-> FALSE, date_added |-> fdate[r],
                          date_published |-> NoDate])
  /\ fout' = [fout EXCEPT ![r] = @ \o getStoryIn(collections', links', article(r))]
  /\ flog' = [logLast(r, "created", TRUE) EXCEPT ![r][Len(flog[r])].decided = TRUE]
  /\ nextArticle(r)
  /\ UNCHANGED <<fbatch, fcorpus, fdate, now, lastOp, indexedVars,
               podcastVars, queryVars, pipelineVars>>

\* the loop is over: resp.json({stories: filteredStories})
FilterFinish(r) ==
  /\ fpc[r] = "exists"
  /\ fidx[r] > Len(fbatch[r])
  /\ fpc' = [fpc EXCEPT ![r] = "done"]
  /\ UNCHANGED <<fbatch, fidx, fcorpus, fdate, fout, flog, now, lastOp,
                 indexedVars, dailyVars, podcastVars, queryVars, pipelineVars>>

\* the response (or the rethrown error) has been delivered
FilterReturn(r) ==
  /\ fpc[r] \in {"done", "failed"}
  /\ fpc' = [fpc EXCEPT ![r] = "idle"]
  /\ fbatch' = [fbatch EXCEPT ![r] = <<>>]
  /\ fidx' = [fidx EXCEPT ![r] = 0]
  /\ fcorpus' = [fcorpus EXCEPT ![r] = <<>>]
  /\ fdate' = [fdate EXCEPT ![r] = 0]
  /\ fout' = [fout EXCEPT ![r] = <<>>]
  /\ flog' = [flog EXCEPT ![r] = <<>>]
  /\ UNCHANGED <<now, lastOp, indexedVars, dailyVars, podcastVars, queryVars, pipelineVars>>

\* ------------------------------------------------------------------------
\* lib/data/podcast.ts: one PodcastTranscript per date key, and the agents
\* that write it
\* ------------------------------------------------------------------------
\* what a podcast agent answers: which return statement it left by, and the
\* transcript or audio URL the answer carries
Answer(kind, override, transcript, audioUrl) ==
  [kind |-> kind, override |-> override, transcript |-> transcript,
   audioUrl |-> audioUrl]

\* the success field of the JSON an answer of that kind carries ("absent":
\* the answer has no such field; "threw" leaves by an exception)
successField(kind) ==
  CASE kind \in {"existing", "already", "success"} -> "true"
    [] kind \in {"nostories", "notranscript", "failed"} -> "false"
    [] OTHER -> "absent"

\* the timestamps callers pass as dates: one per calendar day
Dates == {d * TicksPerDay : d \in Days}

\* getKey(date): the calendar day of a timestamp
getKey(t) == DayOf(t)

\* getByDate: the transcript stored under the date's key, or none
getByDate(t) == IF getKey(t) \in DOMAIN transcripts THEN transcripts[getKey(t)] ELSE <<>>

\* getLatest = getByDate(new Date())
getLatest == getByDate(now)

\* no calendar day
NoDay == -1

\* uploadToR2's public URL of podcast-<date>.mp3, one per calendar day
r2Url(d) == d

\* a URL that is not the R2 URL of any day
OtherUrl == DayOf(MaxTime) + 1

\* a save that stamps every record with the same instant
saveUndated(text, ids) ==
  LET podcastData == [text |-> text,
                      stories |-> [k \in DOMAIN ids |-> story[ids[k]].link],
                      date_created |-> 0,
                      audio_url |-> NoUrl]
  IN transcripts' = [transcripts EXCEPT ![getKey(now)] = <<podcastData>>]

\* save(transcript, stories): the record is built from the generated text
\* (numbered by the generation call that made it) and the stories handed in,
\* and is stored under today's key
save(text, ids) ==
  LET podcastData == [text |-> text,
                      stories |-> [k \in DOMAIN ids |-> story[ids[k]].link],
                      date_created |-> now,
                      audio_url |-> NoUrl]
  IN transcripts' = [transcripts EXCEPT ![getKey(now)] = <<podcastData>>]

\* an updateAudioUrl that creates the record when the date has none
updateAudioUrlUpserts(date, audioUrl, ok) ==
  IF getByDate(date) = <<>>
  THEN /\ ok = TRUE
       /\ getKey(date) \in DOMAIN transcripts
       /\ transcripts' = [transcripts EXCEPT ![getKey(date)] =
                            <<[text |-> 0, stories |-> <<>>,
                               date_created |-> date, audio_url |-> audioUrl]>>]
  ELSE /\ ok = TRUE
       /\ transcripts' = [transcripts EXCEPT
                            ![getKey(date)] = <<[@[1] EXCEPT !.audio_url = audioUrl]>>]

\* updateAudioUrl's write; ok is whether it returned without throwing
updateAudioUrlWrites(date, audioUrl, ok) ==
  IF getByDate(date) = <<>>
  THEN /\ ok = FALSE
       /\ UNCHANGED transcripts
  ELSE /\ ok = TRUE
       /\ transcripts' = [transcripts EXCEPT
                            ![getKey(date)] = <<[@[1] EXCEPT !.audio_url = audioUrl]>>]

\* a caller of the store sets the audio URL of a date
UpdateAudioUrl(date, audioUrl) ==
  /\ \E ok \in BOOLEAN :
       /\ updateAudioUrlWrites(date, audioUrl, ok)
       /\ lastOp' = Op("updateAudioUrl", date, ok)
  /\ UNCHANGED <<generated, presp, now, indexedVars, dailyVars,
                 filterVars, queryVars, pipelineVars>>

\* createPodcastTranscript() calls the model can make
MaxGenerated == 2

\* a PodcastEditor that generates whether or not a transcript exists
PodcastEditorAlwaysGenerates(endDate, override) ==
  LET publishedStories == getPublishedStories IN
  /\ IF publishedStories = <<>>
     THEN /\ presp' = Answer("nostories", override, <<>>, NoUrl)
          /\ UNCHANGED <<transcripts, generated>>
     ELSE /\ generated < MaxGenerated
          /\ generated' = generated + 1
          /\ save(generated + 1, publishedStories)
          /\ presp' = Answer("generated", override,
                          transcripts'[getKey(now)], NoUrl)
  /\ lastOp' = Op("PodcastEditor", endDate, publishedStories # <<>>)
  /\ UNCHANGED <<now, indexedVars, dailyVars, filterVars, queryVars, pipelineVars>>

\* PodcastEditorAgentHandler with dateRange.end = endDate (the default is now)
PodcastEditor(endDate, override) ==
  LET publishedStories == getPublishedStories
      existingTranscript == getByDate(endDate)
  IN
  /\ IF publishedStories = <<>>
     THEN /\ presp' = Answer("nostories", override, <<>>, NoUrl)
          /\ UNCHANGED <<transcripts, generated>>
     ELSE IF existingTranscript # <<>> /\ ~override
     THEN /\ presp' = Answer("existing", override, existingTranscript, NoUrl)
          /\ UNCHANGED <<transcripts, generated>>
     ELSE /\ generated < MaxGenerated
          /\ generated' = generated + 1
          /\ save(generated + 1, publishedStories)
          /\ presp' = Answer("generated", override,
                          transcripts'[getKey(now)], NoUrl)
  /\ lastOp' = Op("PodcastEditor", endDate, publishedStories # <<>>)
  /\ UNCHANGED <<now, indexedVars, dailyVars, filterVars, queryVars, pipelineVars>>

\* the transcripts a PodcastVoice request can carry: a transcript of the
\* store as it is now, or as it was before its audio URL was set
RequestTranscripts ==
  UNION {{transcripts[d][1], [transcripts[d][1] EXCEPT !.audio_url = NoUrl]} :
           d \in {e \in Days : transcripts[e] # <<>>}}

\* what is kept of a PodcastVoice run: whether it answered success, the
\* calendar day of the transcript it worked on and the outside calls it made
VoiceOp(ok, run) ==
  [op |-> "PodcastVoice", link |-> 0, ok |-> ok, date |-> run.date,
   calls |-> run.calls]

\* PodcastVoiceAgentHandler.  request is <<>> for a request without a
\* transcript (the latest one is read), else the transcript it carries;
\* audioOk and uploadOk are whether generateAudio and uploadToR2 succeed.
PodcastVoice(request, audioOk, uploadOk) ==
  LET transcript == IF request = <<>> THEN getLatest ELSE request
      calls == IF transcript = <<>> \/ transcript[1].audio_url # NoUrl THEN {}
               ELSE IF ~audioOk THEN {"generateAudio"}
               ELSE IF ~uploadOk THEN {"generateAudio", "uploadToR2"}
               ELSE {"generateAudio", "uploadToR2", "updateAudioUrl"}
      run == [date |-> IF transcript = <<>> THEN NoDay
                       ELSE getKey(transcript[1].date_created),
              calls |-> calls]
  IN
  /\ IF transcript = <<>>
     THEN /\ presp' = Answer("notranscript", FALSE, <<>>, NoUrl)
          /\ UNCHANGED transcripts
     ELSE IF transcript[1].audio_url # NoUrl
     THEN /\ presp' = Answer("already", FALSE, <<>>, transcript[1].audio_url)
          /\ UNCHANGED transcripts
     ELSE IF ~audioOk
     THEN /\ presp' = Answer("threw", FALSE, <<>>, NoUrl)
          /\ UNCHANGED transcripts
     ELSE IF ~uploadOk
     THEN /\ presp' = Answer("failed", FALSE, <<>>, NoUrl)
          /\ UNCHANGED transcripts
     ELSE LET transcriptDate == transcript[1].date_created
              audioUrl == r2Url(DayOf(transcriptDate))
          IN \E ok \in BOOLEAN :
               /\ updateAudioUrlWrites(transcriptDate, audioUrl, ok)
               /\ presp' = IF ok THEN Answer("success", FALSE, <<>>, audioUrl)
                           ELSE Answer("failed", FALSE, <<>>, NoUrl)
  /\ lastOp' = VoiceOp(presp'.kind \in {"already", "success"}, run)
  /\ UNCHANGED <<generated, now, indexedVars, dailyVars, filterVars, queryVars,
                 pipelineVars>>

\* EditorInChief keeps the JSON the PodcastEditor answered, to hand it to
\* PodcastVoice: the transcript under its "transcript" key, if it has one
ChiefReceivesTranscript ==
  /\ presp.kind \in {"existing", "generated"}
  /\ voice' = presp.transcript
  /\ lastOp' = Op("podcastTranscriptJson", 0, TRUE)
  /\ UNCHANGED <<podcastVars, now, indexedVars, dailyVars, filterVars, queryVars,
                 chief, research, adding>>

\* ------------------------------------------------------------------------
\* The research store: one snapshot per calendar day, in the KV store
\* (lib/data/research.ts) and in Redis
\* ------------------------------------------------------------------------
\* for (let i = daysToKeep + 1; i <= 365; i++)
MaxLookBack == 365

\* the daysToKeep a caller passes
KeepInputs == 0..1

\* calendar days between a snapshot's key and today
ageInDays(d) == today - d

\* saveResearch: today's key is set
SaveResearch ==
  /\ research' = [research EXCEPT !.kv = @ \cup {today}]
  /\ lastOp' = Op("saveResearch", 0, TRUE)
  /\ UNCHANGED <<chief, adding, voice, now, indexedVars, dailyVars, filterVars,
                 podcastVars, queryVars>>

RedisSaveResearch ==
  /\ research' = [research EXCEPT !.redis = @ \cup {today}]
  /\ lastOp' = Op("redisSaveResearch", 0, TRUE)
  /\ UNCHANGED <<chief, adding, voice, now, indexedVars, dailyVars, filterVars,
                 podcastVars, queryVars>>

\* clearOldResearch of research.ts: kv.delete for the keys of today - i,
\* i = daysToKeep + 1 .. 365
ClearOldResearch(daysToKeep) ==
  /\ research' = [research EXCEPT !.kv =
                    {d \in @ : ageInDays(d) \notin (daysToKeep + 1)..MaxLookBack}]
  /\ lastOp' = Op("clearOldResearch", daysToKeep, TRUE)
  /\ UNCHANGED <<chief, adding, voice, now, indexedVars, dailyVars, filterVars,
                 podcastVars, queryVars>>

\* clearOldResearch of the Redis store: every key whose date lies more than
\* daysToKeep * 24h before now is deleted.  daysDiff > daysToKeep, in ticks:
\* now - keyDate > daysToKeep * TicksPerDay
RedisClearOldResearch(daysToKeep) ==
  /\ research' = [research EXCEPT !.redis =
                    {d \in @ : ~(now - d * TicksPerDay > daysToKeep * TicksPerDay)}]
  /\ lastOp' = Op("redisClearOldResearch", daysToKeep, TRUE)
  /\ UNCHANGED <<chief, adding, voice, now, indexedVars, dailyVars, filterVars,
                 podcastVars, queryVars>>

\* ------------------------------------------------------------------------
\* The EditorInChief agent: one run of the pipeline
\* ------------------------------------------------------------------------
\* the agents the handler runs, in the order of its statements
Stages == <<"Investigator", "Filter", "Editor", "PodcastEditor", "PodcastVoice">>

\* chief.state: "idle", "executing" (inside await agent.run), "returned"
\* (between two stages), "done" and "failed" (the handler has left);
\* chief.calls: the stages run so far; chief.running: the stages whose run
\* has been started and has not returned
executing(stage) ==
  /\ chief.state = "executing"
  /\ chief.calls[Len(chief.calls)] = stage

\* the stage body has not acted since agent.run was called
called == lastOp.op = "agent.run"

\* the handler is entered: await investigatorAgent.run(...)
ChiefStart ==
  /\ chief.state = "idle"
  /\ chief' = [state |-> "executing", calls |-> <<Stages[1]>>,
               running |-> {Stages[1]}]
  /\ lastOp' = Op("agent.run", 0, TRUE)
  /\ UNCHANGED <<research, adding, voice, now, indexedVars, dailyVars, filterVars,
                 podcastVars, queryVars>>

\* agent.run resolves, or rejects and the handler is left by the exception
ChiefStageReturns(threw) ==
  /\ chief.state = "executing"
  /\ \/ executing("Investigator")
     \/ executing("Filter")
     \/ executing("Editor")
     \/ executing("PodcastEditor") /\ ~called
     \/ executing("PodcastVoice") /\ ~called
  /\ chief' = [chief EXCEPT !.state = IF threw THEN "failed" ELSE "returned",
                            !.running = @ \ {chief.calls[Len(chief.calls)]}]
  /\ UNCHANGED <<research, adding, voice, now, lastOp, indexedVars, dailyVars,
                 filterVars, podcastVars, queryVars>>

\* what the handler does with a stage's answer: leave early, or go on.
\* The Investigator's empty article list and the Editor's empty link list end
\* the run; so does a Filter answer without data.
endsRun(stage, empty) ==
  \/ stage = "PodcastVoice"
  \/ stage \in {"Investigator", "Filter"} /\ empty
  \/ stage = "Editor" /\ called

\* a handler that starts the next stage without awaiting the one before
ChiefCallsNextUnawaited(empty) ==
  LET n == Len(chief.calls) IN
  /\ chief.state \in {"executing", "returned"}
  /\ IF n = Len(Stages)
     THEN /\ chief' = [chief EXCEPT !.state = "done"]
          /\ UNCHANGED lastOp
     ELSE /\ chief' = [state |-> "executing",
                       calls |-> Append(chief.calls, Stages[n + 1]),
                       running |-> chief.running \cup {Stages[n + 1]}]
          /\ lastOp' = Op("agent.run", 0, TRUE)
  /\ UNCHANGED <<research, adding, voice, now, indexedVars, dailyVars, filterVars,
                 podcastVars, queryVars>>

\* the statements between two awaits: an early return, or the next
\* await agent.run(...)
ChiefCallsNext(empty) ==
  LET n == Len(chief.calls) IN
  /\ chief.state = "returned"
  /\ IF endsRun(chief.calls[n], empty)
     THEN /\ chief' = [chief EXCEPT !.state = "done"]
          /\ UNCHANGED lastOp
     ELSE /\ chief' = [state |-> "executing",
                       calls |-> Append(chief.calls, Stages[n + 1]),
                       running |-> chief.running \cup {Stages[n + 1]}]
          /\ lastOp' = Op("agent.run", 0, TRUE)
  /\ UNCHANGED <<research, adding, voice, now, indexedVars, dailyVars, filterVars,
                 podcastVars, queryVars>>

\* resp.text(...) has been delivered, or the exception has
ChiefReturn ==
  /\ chief.state \in {"done", "failed"}
  /\ chief' = [state |-> "idle", calls |-> <<>>, running |-> {}]
  /\ UNCHANGED <<research, adding, voice, now, lastOp, indexedVars, dailyVars,
                 filterVars, podcastVars, queryVars>>

InitStores ==
  /\ collections = [d \in Days |-> <<>>]
  /\ links = [l \in Links |-> NoId]
  /\ idsIssued = 0
  /\ fpc = [r \in Runs |-> "idle"]
  /\ fbatch = [r \in Runs |-> <<>>]
  /\ fidx = [r \in Runs |-> 0]
  /\ fcorpus = [r \in Runs |-> <<>>]
  /\ fdate = [r \in Runs |-> 0]
  /\ fout = [r \in Runs |-> <<>>]
  /\ flog = [r \in Runs |-> <<>>]
  /\ story = <<>>
  /\ dateIdx = [d \in Days |-> <<>>]
  /\ unpublished = <<>>
  /\ published = <<>>
  /\ linkToId = [l \in Links |-> NoId]
  /\ now = 0
  /\ lastOp = [op |-> "init", link |-> 0, ok |-> TRUE]
  /\ wasEdited = {}
  /\ addedDay = <<>>
  /\ damaged = [missing |-> {}, invalid |-> {}]
  /\ transcripts = [d \in Days |-> <<>>]
  /\ generated = 0
  /\ presp = Answer("none", FALSE, <<>>, NoUrl)
  /\ chief = [state |-> "idle", calls |-> <<>>, running |-> {}]
  /\ research = [kv |-> {}, redis |-> {}]
  /\ adding = [r \in Runs |-> [pc |-> "idle"]]
  /\ voice = <<>>

Init ==
  /\ InitStores
  /\ qstart = 0
  /\ qend = 0
  /\ qpc = "idle"
  /\ qdates = <<>>

Next ==
  \/ \E s \in StoryInputs(now) : AddStory(s)
  \/ \E l \in Links : MarkAsPublished(l)
  \/ \E s \in StoryInputs(now) : UpdateStory(s)
  \/ \E l \in Links : UpdateStoryWithContent(l)
  \/ Tick

Spec == Init /\ [][Next]_vars

\* the daily-collection store with one Filter run at a time
Writer == {1}

noRun == \A r \in Runs : fpc[r] = "idle"

NextFilter ==
  \/ \E r \in Writer, batch \in Batches : FilterStart(r, batch)
  \/ \E r \in Writer : FilterExists(r)
  \/ \E r \in Writer, fails \in BOOLEAN, rel \in RelevanceOutcomes :
       FilterRelevance(r, fails, rel)
  \/ \E r \in Writer, fails \in BOOLEAN :
       \E out \in SimilarityOutcomes(Len(similarityCorpus(r))) :
         FilterSimilarity(r, fails, out)
  \/ \E r \in Writer : FilterAdd(r)
  \/ \E r \in Writer : FilterFinish(r)
  \/ \E r \in Writer : FilterReturn(r)
  \/ /\ noRun
     /\ \E sd \in StoryInputs(now) : DailyAddStory(sd)
  \/ /\ noRun
     /\ \E l \in Links, u \in UpdateInputs(now) : DailyUpdateStory(l, u)
  \/ /\ noRun
     /\ \E l \in Links : DailyMarkAsPublished(l)
  \/ Tick

SpecFilter == Init /\ [][NextFilter]_vars

\* one Filter run while the Editor publishes stories
NextFilterShared ==
  \/ \E r \in Writer, batch \in Batches : FilterStart(r, batch)
  \/ \E r \in Writer : FilterExists(r)
  \/ \E r \in Writer, fails \in BOOLEAN, rel \in RelevanceOutcomes :
       FilterRelevance(r, fails, rel)
  \/ \E r \in Writer, fails \in BOOLEAN :
       \E out \in SimilarityOutcomes(Len(similarityCorpus(r))) :
         FilterSimilarity(r, fails, out)
  \/ \E r \in Writer : FilterAdd(r)
  \/ \E r \in Writer : FilterFinish(r)
  \/ \E r \in Writer : FilterReturn(r)
  \/ \E l \in Links : DailyMarkAsPublished(l)
  \/ Tick

SpecFilterShared == Init /\ [][NextFilterShared]_vars

\* the podcast agents over the stories the Editor publishes
NextPodcast ==
  \/ \E l \in Links : UpdateStoryWithContent(l)
  \/ \E endDate \in Dates \cup {now}, override \in BOOLEAN :
       PodcastEditor(endDate, override)
  \/ \E date \in Dates :
       \E audioUrl \in {r2Url(DayOf(date)), OtherUrl} :
         UpdateAudioUrl(date, audioUrl)
  \/ \E request \in {<<>>} \cup {<<t>> : t \in RequestTranscripts},
        audioOk \in BOOLEAN, uploadOk \in BOOLEAN :
       PodcastVoice(request, audioOk, uploadOk)
  \/ Tick

SpecPodcast == Init /\ [][NextPodcast]_vars

\* EditorInChief runs hand the transcript they were answered to PodcastVoice
\* while other runs of the podcast agents go on
NextVoice ==
  \/ \E l \in Links : UpdateStoryWithContent(l)
  \/ \E override \in BOOLEAN : PodcastEditor(now, override)
  \/ ChiefReceivesTranscript
  \/ \E request \in {<<>>, voice},
        audioOk \in BOOLEAN, uploadOk \in BOOLEAN :
       PodcastVoice(request, audioOk, uploadOk)
  \/ Tick

SpecVoice == Init /\ [][NextVoice]_vars

\* the indexed store with records that are lost or fail the schema
NextDamaged ==
  \/ \E s \in StoryInputs(now) : AddStory(s)
  \/ \E l \in Links : MarkAsPublished(l)
  \/ \E l \in Links : UpdateStoryInvalid(l)
  \/ \E id \in DOMAIN story : RecordLost(id)
  \/ Tick

SpecDamaged == Init /\ [][NextDamaged]_vars

\* one EditorInChief run at a time; the Editor, PodcastEditor and
\* PodcastVoice stages act on the stores while the handler awaits them
NextChief ==
  \/ ChiefStart
  \/ \E threw \in BOOLEAN : ChiefStageReturns(threw)
  \/ \E empty \in BOOLEAN : ChiefCallsNext(empty)
  \/ ChiefReturn
  \/ /\ executing("Editor")
     /\ \E l \in Links : UpdateStoryWithContent(l)
  \/ /\ executing("PodcastEditor") /\ called
     /\ PodcastEditor(now, FALSE)
  \/ /\ executing("PodcastVoice") /\ called
     /\ \E audioOk \in BOOLEAN, uploadOk \in BOOLEAN :
          PodcastVoice(presp.transcript, audioOk, uploadOk)
  \/ Tick

SpecChief == Init /\ [][NextChief]_vars

\* two runs adding stories to the indexed store, their awaits interleaved
NextShared ==
  \/ \E r \in Runs, s \in StoryInputs(now) : AddSetStory(r, s)
  \/ \E r \in Runs : AddGetDate(r)
  \/ \E r \in Runs : AddSetDate(r)
  \/ \E r \in Runs : AddGetUnpublished(r)
  \/ \E r \in Runs : AddSetUnpublished(r)
  \/ \E r \in Runs : AddSetLink(r)
  \/ Tick

SpecShared == Init /\ [][NextShared]_vars

\* one writer whose addStory and markAsPublished calls may stop half-way
NextStopping ==
  \/ \E r \in Writer, s \in StoryInputs(now) : AddSetStory(r, s)
  \/ \E r \in Writer : AddGetDate(r)
  \/ \E r \in Writer : AddSetDate(r)
  \/ \E r \in Writer : AddGetUnpublished(r)
  \/ \E r \in Writer : AddSetUnpublished(r)
  \/ \E r \in Writer : AddSetLink(r)
  \/ \E r \in Writer, l \in Links : MarkSetStory(r, l)
  \/ \E r \in Writer : MarkGetUnpublished(r)
  \/ \E r \in Writer : MarkSetUnpublished(r)
  \/ \E r \in Writer : MarkGetPublished(r)
  \/ \E r \in Writer : MarkSetPublished(r)
  \/ \E r \in Writer : Stops(r)
  \/ Tick

SpecStopping == Init /\ [][NextStopping]_vars

\* one writer that only adds stories, and may stop half-way
NextAdding ==
  \/ \E r \in Writer, s \in StoryInputs(now) : AddSetStory(r, s)
  \/ \E r \in Writer : AddGetDate(r)
  \/ \E r \in Writer : AddSetDate(r)
  \/ \E r \in Writer : AddGetUnpublished(r)
  \/ \E r \in Writer : AddSetUnpublished(r)
  \/ \E r \in Writer : AddSetLink(r)
  \/ \E r \in Writer : Stops(r)
  \/ Tick

SpecAdding == Init /\ [][NextAdding]_vars

\* the daily-collection store over more than a week
NextWeek ==
  \/ /\ now <= MaxTime
     /\ \E sd \in StoryInputs(now) : DailyAddStory(sd)
  \/ /\ now <= MaxTime
     /\ \E l \in Links : DailyMarkAsPublished(l)
  \/ Tick
  \/ WindowElapses

SpecWeek == Init /\ [][NextWeek]_vars

\* two Filter runs at once, each given one article
OneArticle == {b \in Batches : Len(b) = 1}

NextFilterPair ==
  \/ \E r \in Runs, batch \in OneArticle : FilterStart(r, batch)
  \/ \E r \in Runs : FilterExists(r)
  \/ \E r \in Runs, fails \in BOOLEAN, rel \in RelevanceOutcomes :
       FilterRelevance(r, fails, rel)
  \/ \E r \in Runs, fails \in BOOLEAN :
       \E out \in SimilarityOutcomes(Len(similarityCorpus(r))) :
         FilterSimilarity(r, fails, out)
  \/ \E r \in Runs : FilterAdd(r)
  \/ \E r \in Runs : FilterFinish(r)
  \/ \E r \in Runs : FilterReturn(r)
  \/ Tick

SpecFilterPair == Init /\ [][NextFilterPair]_vars

\* the two research stores
NextResearch ==
  \/ SaveResearch
  \/ RedisSaveResearch
  \/ \E daysToKeep \in KeepInputs : ClearOldResearch(daysToKeep)
  \/ \E daysToKeep \in KeepInputs : RedisClearOldResearch(daysToKeep)
  \/ Tick

SpecResearch == Init /\ [][NextResearch]_vars

\* the daily-collection store over more than a year; it is only written
\* on the days the model has collections for
NextRetention ==
  \/ /\ now <= MaxTime
     /\ \E sd \in StoryInputs(now) : DailyAddStory(sd)
  \/ /\ now <= MaxTime
     /\ \E l \in Links, u \in UpdateInputs(now) : DailyUpdateStory(l, u)
  \/ Tick
  \/ TtlElapses

SpecRetention == Init /\ [][NextRetention]_vars

\* one call of getDatesInRange on any two timestamps
MaxQueryTime == 7

QueryTimes == 0..MaxQueryTime

GetDatesInRange ==
  /\ qpc = "call"
  /\ qdates' = getDatesInRange(qstart, qend)
  /\ qpc' = "return"
  /\ UNCHANGED <<qstart, qend, now, lastOp, indexedVars, dailyVars,
                 filterVars, podcastVars, pipelineVars>>

InitDates ==
  /\ InitStores
  /\ qstart \in QueryTimes
  /\ qend \in QueryTimes
  /\ qpc = "call"
  /\ qdates = <<>>

NextDates == GetDatesInRange

SpecDates == InitDates /\ [][NextDates]_vars

\* ------------------------------------------------------------------------
\* Properties of the indexed store
\* ------------------------------------------------------------------------
\* the step just taken completed the store operation `name` on link l
IsStep(name, l) == lastOp'.op = name /\ lastOp'.link = l /\ now' = now

\* C1: at most one Story record exists per distinct link, and an add whose
\* link is already in the link index fails and changes neither the records nor
\* any index.
C1_AddRejectsDuplicateLink ==
  /\ [](\A i, j \in DOMAIN story : story[i].link = story[j].link => i = j)
  /\ [][\A l \in Links :
          (IsStep("addStory", l) /\ exists(l))
            => (UNCHANGED storeVars /\ ~lastOp'.ok)]_vars

\* C2: once a stored record has published = true (edited = true) no later
\* operation stores it with published = false (edited = false).
C2_StatusMonotonic ==
  [][\A i \in DOMAIN story :
       /\ story[i].published => story'[i].published
       /\ story[i].edited => story'[i].edited]_vars

\* C3: every id the link index maps to is in exactly one of the unpublished
\* and published indexes, and in the published one iff its record is published.
C3_StatusIndexesConsistent ==
  \A l \in Links :
    exists(l) =>
      LET id == linkToId[l] IN
      /\ InSeq(id, unpublished) # InSeq(id, published)
      /\ InSeq(id, published) <=> story[id].published

\* C4: a published Story has date_published set and was edited in an earlier
\* state, before it became published.
C4_EditedBeforePublished ==
  \A i \in DOMAIN story :
    story[i].published =>
      (story[i].date_published # NoDate /\ i \in wasEdited)

\* C5: a markAsPublished(link) that directly follows a markAsPublished of the
\* same link changes neither the record (date_published) nor any index.
C5_PublishIdempotent ==
  [][\A l \in Links :
       (lastOp.op = "markAsPublished" /\ lastOp.link = l
          /\ IsStep("markAsPublished", l))
         => UNCHANGED storeVars]_vars

\* C6: markAsPublished(link) on an existing unpublished Story sets published
\* and date_published on its record, moves its id from the unpublished to the
\* published index, and changes no other record, no date index and no
\* link -> id entry.
C6_PublishEffectAndFrame ==
  [][\A l \in Links :
       (IsStep("markAsPublished", l) /\ exists(l)
          /\ ~story[linkToId[l]].published)
         => LET id == linkToId[l] IN
            /\ story'[id] = [story[id] EXCEPT !.published = TRUE,
                                             !.date_published = now]
            /\ story'[id].date_published # NoDate
            /\ ~InSeq(id, unpublished')
            /\ InSeq(id, published')
            /\ DOMAIN story' = DOMAIN story
            /\ \A j \in DOMAIN story \ {id} :
                 /\ story'[j] = story[j]
                 /\ InSeq(j, unpublished') <=> InSeq(j, unpublished)
                 /\ InSeq(j, published') <=> InSeq(j, published)
            /\ dateIdx' = dateIdx
            /\ linkToId' = linkToId]_vars

\* a story has just been published by its first markAsPublished while another
\* story stays unpublished
C6_Witness ==
  /\ lastOp.op = "markAsPublished"
  /\ exists(lastOp.link)
  /\ story[linkToId[lastOp.link]].published
  /\ story[linkToId[lastOp.link]].date_published = now
  /\ Count(linkToId[lastOp.link], published) = 1
  /\ ~InSeq(linkToId[lastOp.link], unpublished)
  /\ \E j \in DOMAIN story : ~story[j].published /\ InSeq(j, unpublished)

\* C8: once the link index maps a link to an id, no store operation changes
\* the id that link maps to.
C8_IdStable ==
  [][\A l \in Links : exists(l) => linkToId'[l] = linkToId[l]]_vars

\* ------------------------------------------------------------------------
\* Properties of markAsPublished across the stores, and of the Filter agent
\* ------------------------------------------------------------------------
\* C7: markAsPublished(link) for a link that has no Story raises no error and
\* leaves every stored record and every index unchanged, in the indexed store
\* and in the daily-collection store alike.
C7_PublishMissingIsSilent ==
  [][\A l \in Links :
       /\ (IsStep("markAsPublished", l) /\ ~exists(l))
            => (lastOp'.ok /\ UNCHANGED storeVars)
       /\ (IsStep("dailyMarkAsPublished", l) /\ ~dailyExists(l))
            => (lastOp'.ok /\ UNCHANGED dailyVars)]_vars

\* C9: a Filter run never ends with an error, and a run that has ended has
\* brought every article of its batch to a decision.
C9_ClassifierFailureContained ==
  \A r \in Runs :
    /\ fpc[r] # "failed"
    /\ fpc[r] = "done" =>
         /\ Len(flog[r]) = Len(fbatch[r])
         /\ \A k \in DOMAIN flog[r] : flog[r][k].decided

\* the decision the Filter is to reach, from what the article met at its turn
passesFilter(e) ==
  /\ ~e.existed
  /\ e.rel.isRelevant /\ e.rel.confidence >= 60
  /\ ~(e.sim.isSimilar /\ e.sim.confidence > 60)

\* C10: the articles handled so far are the batch's, in order; a decided
\* article has a Story created iff its link was unknown, it was relevant with
\* confidence >= 0.6 and it was not similar with confidence > 0.6; every
\* created Story is stored unpublished and unedited and is in the output, which
\* holds nothing else.
C10_FilterCreatesExactlyPassing ==
  \A r \in Runs :
    /\ Len(flog[r]) <= Len(fbatch[r])
    /\ \A k \in DOMAIN flog[r] :
         LET e == flog[r][k] IN
         /\ e.link = fbatch[r][k]
         /\ e.decided => (e.created <=> passesFilter(e))
         /\ e.created =>
              /\ e.decided
              /\ dailyGetStory(e.link) # <<>>
              /\ ~dailyGetStory(e.link)[1].published
              /\ ~dailyGetStory(e.link)[1].edited
              /\ InSeq(dailyGetStory(e.link)[1], fout[r])
    /\ Len(fout[r]) = Cardinality({k \in DOMAIN flog[r] : flog[r][k].created})
    /\ fpc[r] = "done" =>
         /\ Len(flog[r]) = Len(fbatch[r])
         /\ \A k \in DOMAIN flog[r] : flog[r][k].decided

\* a run has ended in which one article was skipped as known and another was
\* accepted with relevance exactly 0.6 and a similarity verdict of exactly 0.6
C10_Witness ==
  /\ fpc[1] = "done"
  /\ \E k \in DOMAIN flog[1] : flog[1][k].existed /\ ~flog[1][k].created
  /\ \E k \in DOMAIN flog[1] :
       /\ flog[1][k].created
       /\ flog[1][k].rel.confidence = 60
       /\ flog[1][k].sim.isSimilar
       /\ flog[1][k].sim.confidence = 60
       /\ Len(fout[1]) = 1
       /\ fout[1][1].link = flog[1][k].link

\* ------------------------------------------------------------------------
\* Properties of the queries
\* ------------------------------------------------------------------------
\* the timestamps that fall on calendar day d
TimesOn(d) == {t \in (d * TicksPerDay)..(d * TicksPerDay + TicksPerDay - 1) : TRUE}

\* C11: a story added with date_added on calendar day D is returned by the
\* date-range query over D..D and is not returned by the query over D+1..D+5.
C11_AddedDayIsQueried ==
  \A id \in DOMAIN story :
    LET D == addedDay[id] IN
    /\ \A startDate \in TimesOn(D), endDate \in TimesOn(D) :
         startDate <= endDate
           => InSeq(id, getStoriesByDateRange(startDate, endDate, NoOptions))
    /\ \A startDate \in TimesOn(D + 1), endDate \in TimesOn(D + 5) :
         ~InSeq(id, getStoriesByDateRange(startDate, endDate, NoOptions))

\* stories added on two different days, one of them re-dated by an update
C11_Witness ==
  \E i \in DOMAIN story, j \in DOMAIN story :
    /\ addedDay[i] # addedDay[j]
    /\ DayOf(story[i].date_added) # addedDay[i]

\* C12: for start <= end the date-range query reads the day index of every
\* calendar day from start's day through end's day, whatever the times of day.
C12_EveryDayOfRangeIsRead ==
  (qpc = "return" /\ qstart <= qend)
    => \A d \in DayOf(qstart)..DayOf(qend) : InSeq(d, qdates)

\* the ids in the day indexes of the calendar days of [startDate, endDate],
\* restricted to the status index the options name
idsInRange(startDate, endDate, options) ==
  {id \in DOMAIN story :
     /\ \E d \in DayOf(startDate)..DayOf(endDate) : InSeq(id, dateIndex(d))
     /\ options.publishedOnly => InSeq(id, published)
     /\ (~options.publishedOnly /\ options.unpublishedOnly)
          => InSeq(id, unpublished)}

newestFirst(ids, date) ==
  \A i \in DOMAIN ids, j \in DOMAIN ids :
    i < j => date[ids[i]] >= date[ids[j]]

\* C13: the date-range query returns the stories in the day indexes of the
\* range, each once, intersected with the status index asked for, cut to
\* limit when limit > 0, newest first by date_published when filtering
\* published and by date_added otherwise.
C13_QueryReturnsRange ==
  \A startDate \in 0..MaxTime, endDate \in 0..MaxTime, options \in QueryOptions :
    LET result == getStoriesByDateRange(startDate, endDate, options)
        wanted == idsInRange(startDate, endDate, options)
        got == {result[k] : k \in DOMAIN result}
    IN startDate <= endDate
         => /\ Cardinality(got) = Len(result)
            /\ got \subseteq wanted
            /\ IF options.limit > 0 /\ options.limit < Cardinality(wanted)
               THEN Len(result) = options.limit
               ELSE got = wanted
            /\ newestFirst(result,
                           IF options.publishedOnly THEN byDatePublished
                           ELSE byDateAdded)

\* C16 as stated: the three views are ordered newest first by date_added.
C16_ViewsNewestByDateAdded ==
  /\ newestFirst(getUneditedUnpublishedStories, byDateAdded)
  /\ newestFirst(getEditedUnpublishedStories, byDateAdded)
  /\ newestFirst(getPublishedStories, byDateAdded)

\* C16, amended: getUneditedUnpublished and getEditedUnpublished are ordered
\* newest first by date_added; getPublished is ordered newest first by
\* date_published, or by date_added for a record without date_published.
C16_ViewsNewestFirst ==
  /\ newestFirst(getUneditedUnpublishedStories, byDateAdded)
  /\ newestFirst(getEditedUnpublishedStories, byDateAdded)
  /\ newestFirst(getPublishedStories, byDatePublished)

\* two published stories, the one added first published last
C16_Witness ==
  /\ Len(getPublishedStories) = 2
  /\ \E i \in DOMAIN story, j \in DOMAIN story :
       /\ getPublishedStories = <<i, j>>
       /\ story[i].date_added < story[j].date_added
       /\ story[i].date_published > story[j].date_published

\* ------------------------------------------------------------------------
\* Properties of the update operation
\* ------------------------------------------------------------------------
\* C14: after the store's update operation succeeds on an existing story, the
\* stored record has edited = true.
C14_UpdateSetsEdited ==
  [][\A l \in Links :
       (IsStep("updateStory", l) /\ lastOp'.ok)
         => story'[linkToId[l]].edited]_vars

\* C15: the update operation on a link that has no story fails with the
\* not-found error and writes nothing to the store.
C15_UpdateMissingFails ==
  [][\A l \in Links :
       (IsStep("updateStory", l) /\ ~exists(l))
         => (~lastOp'.ok /\ UNCHANGED storeVars)]_vars

\* an update of an unknown link was refused while the store held a story
C15_Witness ==
  /\ lastOp.op = "updateStory"
  /\ ~lastOp.ok
  /\ ~exists(lastOp.link)
  /\ story # <<>>

\* C15 in the daily-collection store: the update of a link that is not in the
\* lookup table fails and writes nothing.
C15_DailyUpdateMissingFails ==
  [][\A l \in Links :
       (IsStep("dailyUpdateStory", l) /\ UNCHANGED filterVars
          /\ ~dailyExists(l))
         => (~lastOp'.ok /\ UNCHANGED dailyVars)]_vars

\* ------------------------------------------------------------------------
\* Properties of the Podcast Store and the podcast agents
\* ------------------------------------------------------------------------
\* C17: transcript generation for a date that already has a transcript, with
\* override = false, answers with the existing transcript, makes no generation
\* call and leaves the Podcast Store unchanged.
C17_ExistingTranscriptIsReturned ==
  [][\A endDate \in 0..MaxTime :
       (IsStep("PodcastEditor", endDate) /\ ~presp'.override
          /\ getByDate(endDate) # <<>>)
         => /\ presp'.kind = "existing"
            /\ presp'.transcript = getByDate(endDate)
            /\ UNCHANGED <<transcripts, generated>>]_vars

\* the agent answered with the stored transcript of the date asked for, which
\* already had its audio URL
C17_Witness ==
  /\ lastOp.op = "PodcastEditor"
  /\ presp.kind = "existing"
  /\ ~presp.override
  /\ presp.transcript = getByDate(lastOp.link)
  /\ presp.transcript[1].audio_url # NoUrl

\* C18: transcript generation for a date D that already has a transcript,
\* with override = true, stores the new transcript under D's key, so that
\* getByDate(D) then returns the new transcript and not the old one.
C18_OverrideReplacesUnderDate ==
  [][\A endDate \in 0..MaxTime :
       (IsStep("PodcastEditor", endDate) /\ presp'.override
          /\ getByDate(endDate) # <<>>)
         => /\ presp'.kind = "generated"
            /\ transcripts'[getKey(endDate)] = presp'.transcript
            /\ transcripts'[getKey(endDate)] # getByDate(endDate)]_vars

\* C19: the audio_url of a stored transcript, once present, is never changed
\* by a later PodcastVoice run or updateAudioUrl call.
C19_AudioUrlSetOnce ==
  [][\A d \in Days :
       (/\ transcripts[d] # <<>>
        /\ transcripts'[d] # <<>>
        /\ transcripts'[d][1].text = transcripts[d][1].text
        /\ transcripts'[d][1].date_created = transcripts[d][1].date_created
        /\ transcripts[d][1].audio_url # NoUrl)
         => transcripts'[d][1].audio_url = transcripts[d][1].audio_url]_vars

\* C20: updateAudioUrl for a date without a stored transcript fails and
\* writes nothing; when it succeeds it changes the audio_url of that date's
\* transcript and nothing else.
C20_UpdateAudioUrlEffect ==
  [][\A date \in Dates :
       IsStep("updateAudioUrl", date)
         => IF getByDate(date) = <<>>
            THEN ~lastOp'.ok /\ UNCHANGED <<transcripts, storeVars>>
            ELSE /\ lastOp'.ok
                 /\ UNCHANGED storeVars
                 /\ \E audioUrl \in {r2Url(getKey(date)), OtherUrl} :
                      transcripts' =
                        [transcripts EXCEPT ![getKey(date)] =
                           <<[@[1] EXCEPT !.audio_url = audioUrl]>>]]_vars

\* an update was refused for a date without a transcript, after an update of
\* another date's transcript had succeeded
C20_Witness ==
  /\ lastOp.op = "updateAudioUrl"
  /\ ~lastOp.ok
  /\ getByDate(lastOp.link) = <<>>
  /\ \E d \in Days : /\ transcripts[d] # <<>>
                     /\ transcripts[d][1].audio_url = OtherUrl

\* ------------------------------------------------------------------------
\* Retention
\* ------------------------------------------------------------------------
\* the daily-collection store holds a record for the id of link l
dailyRecordStored(l) ==
  \E d \in Days : \E k \in DOMAIN collections[d] : collections[d][k].id = links[l]

\* C21: stories are never deleted: once a link has a story, no store
\* operation and no passage of time removes its record or its link entry.
C21_StoriesNeverDeleted ==
  [][\A l \in Links :
       /\ exists(l) => (exists(l)' /\ Len(story') >= Len(story))
       /\ (dailyExists(l) /\ dailyRecordStored(l))
            => (dailyExists(l) /\ dailyRecordStored(l))']_vars

\* C21 for the indexed store alone, which sets no TTL
C21_IndexedNeverDeleted ==
  [][\A l \in Links :
       exists(l) => (exists(l)' /\ Len(story') >= Len(story))]_vars

\* ------------------------------------------------------------------------
\* Queries over damaged records
\* ------------------------------------------------------------------------
readable(ids) == {ids[k] : k \in {j \in DOMAIN ids : stored(ids[j]) /\ parses(ids[j])}}

Range(seq) == {seq[k] : k \in DOMAIN seq}

\* C22: when an index holds an id whose record is missing or fails the
\* schema, getUnpublished, getPublished and the date-range query leave that id
\* out and return the remaining stories.
C22_DamagedRecordsOmitted ==
  /\ Range(getUnpublishedStories) = readable(unpublished)
  /\ Range(getPublishedStories) = readable(published)
  /\ \A startDate \in 0..MaxTime, endDate \in 0..MaxTime :
       Range(getStoriesByDateRange(startDate, endDate, NoOptions))
         = readable(idsOfDates(getDatesInRange(startDate, endDate)))

\* the unpublished index names a record that is lost or fails the schema,
\* and a readable one after it
C22_Witness ==
  \E i \in damaged.missing \cup damaged.invalid, k \in DOMAIN story :
    /\ stored(k) /\ parses(k)
    /\ unpublished = <<i, k>>
    /\ getUnpublishedStories = <<k>>

\* ------------------------------------------------------------------------
\* The Filter run: order of the articles and the corpus
\* ------------------------------------------------------------------------
atClassifier(r) == fpc[r] \in {"relevance", "similarity"}

\* C23: within one Filter run the articles are handled in batch order, one
\* at a time: the k-th article handled is the k-th of the batch, an article is
\* begun only when every earlier one has been decided, and a classifier call
\* is made for the article the loop is at and no other.
C23_ArticlesInBatchOrder ==
  \A r \in Runs :
    /\ Len(flog[r]) <= Len(fbatch[r])
    /\ \A k \in DOMAIN flog[r] :
         /\ flog[r][k].link = fbatch[r][k]
         /\ k < Len(flog[r]) => flog[r][k].decided
    /\ atClassifier(r) => /\ fidx[r] = Len(flog[r])
                          /\ ~flog[r][fidx[r]].decided

\* the second article is at its similarity call after the classifier was
\* called for the first
C23_Witness ==
  /\ fpc[1] = "similarity"
  /\ Len(flog[1]) = 2
  /\ fbatch[1][1] # fbatch[1][2]
  /\ flog[1][1].rel # NoRelevance

\* C24: within one Filter run the published corpus is read once, before the
\* first article; it does not change while the run lasts, whatever is added
\* or published meanwhile, and every similarity check is given that corpus.
C24_CorpusFixedForRun ==
  [][\A r \in Runs :
       /\ (fpc[r] = "idle" /\ fpc'[r] = "exists")
            => fcorpus'[r] = dailyGetPublishedStories(today)
       /\ (fpc[r] # "idle" /\ fpc'[r] # "idle") => fcorpus'[r] = fcorpus[r]
       /\ \A k \in DOMAIN flog'[r] :
            flog'[r][k].sim # NoSimilarity => flog'[r][k].corpus = fcorpus'[r]]_vars

\* a similarity check was made after a story was published during the run
C24_Witness ==
  /\ fpc[1] = "add"
  /\ flog[1][Len(flog[1])].corpus # dailyGetPublishedStories(today)
  /\ Len(dailyGetPublishedStories(today)) > Len(fcorpus[1])

\* ------------------------------------------------------------------------
\* The order of the pipeline's stages
\* ------------------------------------------------------------------------
\* C25: in an EditorInChief run the stages are invoked in the order
\* Investigator, Filter, Editor, PodcastEditor, PodcastVoice, a stage is
\* invoked only when the one before it has returned, and at most one stage is
\* executing at any time.
C25_StagesInOrder ==
  /\ Len(chief.calls) <= Len(Stages)
  /\ \A k \in DOMAIN chief.calls : chief.calls[k] = Stages[k]
  /\ Cardinality(chief.running) <= 1
  /\ chief.running =
       IF chief.state = "executing" THEN {chief.calls[Len(chief.calls)]} ELSE {}

\* the last stage is executing after the other four have returned
C25_Witness ==
  /\ executing("PodcastVoice")
  /\ Len(chief.calls) = 5
  /\ presp.kind = "success"

\* ------------------------------------------------------------------------
\* The stories a transcript covers
\* ------------------------------------------------------------------------
\* C26: the stories snapshot of a generated transcript holds only published
\* stories of the requested date range: whatever the start of the range, no
\* story published after the calendar day of its end is in the snapshot.
C26_SnapshotWithinRange ==
  [][\A endDate \in Dates \cup {now} :
       (IsStep("PodcastEditor", endDate) /\ presp'.kind = "generated")
         => \A k \in DOMAIN presp'.transcript[1].stories :
              LET st == story[linkToId[presp'.transcript[1].stories[k]]]
              IN /\ st.published
                 /\ DayOf(st.date_published) <= DayOf(endDate)]_vars

kept(snapshots, daysToKeep) == {d \in snapshots : ageInDays(d) <= daysToKeep}

\* C28: clearOldResearch(daysToKeep) deletes every research snapshot older
\* than daysToKeep days and no snapshot aged daysToKeep days or less, in
\* either research store.
C28_ClearOldResearchBoundary ==
  [][\A daysToKeep \in KeepInputs :
       /\ IsStep("clearOldResearch", daysToKeep)
            => research'.kv = kept(research.kv, daysToKeep)
       /\ IsStep("redisClearOldResearch", daysToKeep)
            => research'.redis = kept(research.redis, daysToKeep)]_vars

\* the KV store's clearOldResearch alone
C28_KvClearOldResearch ==
  [][\A daysToKeep \in KeepInputs :
       IsStep("clearOldResearch", daysToKeep)
         => research'.kv = kept(research.kv, daysToKeep)]_vars

\* ------------------------------------------------------------------------
\* Nothing to do
\* ------------------------------------------------------------------------
\* C29: a stage that finds nothing to do answers a success or empty result,
\* never a failure: the PodcastEditor's answer when there are no published
\* stories does not carry success = false, as the answers that report a
\* failure do.
C29_EmptyIsNotFailure ==
  (lastOp.op = "PodcastEditor" /\ presp.kind = "nostories")
    => successField(presp.kind) # successField("failed")

\* the Filter with an empty batch answers {filteredStories: []} and does not
\* throw
C29_FilterEmptyIsSuccess ==
  [][\A r \in Runs :
       (fpc[r] = "idle" /\ fpc'[r] # "idle" /\ fbatch'[r] = <<>>)
         => fpc'[r] = "done"]_vars

\* ------------------------------------------------------------------------
\* Two runs appending to one index
\* ------------------------------------------------------------------------
\* C30: with two runs interleaving their backend reads and writes, an append
\* to a shared index made by one run is overwritten by the other's
\* read-modify-write: a run's write of the unpublished index leaves exactly
\* the list it read earlier with its own id pushed, so an id the other run
\* appended in between is gone from the index.
C30_WriteOverwritesAppends ==
  [][\A r \in Runs :
       (adding[r].pc = "setUnpublished" /\ adding'[r].pc = "setLink")
         => /\ unpublished' = Append(adding[r].ids, adding[r].id)
            /\ \A i \in Range(unpublished) \ Range(adding[r].ids) :
                 ~InSeq(i, unpublished')]_vars

\* both addStory calls have completed and one story's id is missing from
\* the unpublished index
C30_Witness ==
  /\ \A r \in Runs : adding[r].pc = "idle"
  /\ Len(story) = 2
  /\ \A l \in Links : linkToId[l] # NoId
  /\ Len(unpublished) = 1

\* ------------------------------------------------------------------------
\* A call that stops between two writes
\* ------------------------------------------------------------------------
inAdd(r) ==
  adding[r].pc \in {"getDate", "setDate", "getUnpublished", "setUnpublished", "setLink"}

stoppedStep(r) == adding[r].pc # "idle" /\ lastOp'.op = "stopped" /\ adding'[r].pc = "idle"

\* C31: when addStory or markAsPublished stops between two of its writes,
\* record and indexes disagree.  A markAsPublished of a record that was not
\* published, stopped before its unpublished write, leaves published = true
\* with the id still in the unpublished index; stopped after it, with the id
\* in neither status index.  A stopped addStory leaves a record that no link
\* entry reaches.
C31_StopLeavesDisagreement ==
  [][\A r \in Runs :
       stoppedStep(r) =>
         /\ (adding[r].pc \in {"markGetUnpublished", "markSetUnpublished"}
               /\ ~adding[r].was)
              => /\ story'[adding[r].id].published
                 /\ InSeq(adding[r].id, unpublished')
                 /\ ~InSeq(adding[r].id, published')
         /\ (adding[r].pc \in {"markGetPublished", "markSetPublished"}
               /\ ~adding[r].was)
              => /\ story'[adding[r].id].published
                 /\ ~InSeq(adding[r].id, unpublished')
                 /\ ~InSeq(adding[r].id, published')
         /\ inAdd(r)
              => /\ adding[r].id \in DOMAIN story'
                 /\ \A l \in Links : linkToId'[l] # adding[r].id]_vars

\* after stopped calls: one record is published and in neither status
\* index, another record has no link entry
C31_Witness ==
  /\ lastOp.op = "stopped"
  /\ \E i \in DOMAIN story :
       /\ story[i].published
       /\ ~InSeq(i, unpublished) /\ ~InSeq(i, published)
       /\ \E l \in Links : linkToId[l] = i
  /\ \E i \in DOMAIN story : \A l \in Links : linkToId[l] # i

\* C33: in any state reached by addStory calls of one writer, stopped or not
\* between any two writes, exists(link) implies that the story's record is
\* stored and that its id is in the date index of its date_added day and in
\* the unpublished index.
C33_ExistsImpliesIndexed ==
  \A l \in Links :
    exists(l) =>
      /\ stored(linkToId[l])
      /\ InSeq(linkToId[l], dateIdx[DayOf(story[linkToId[l]].date_added)])
      /\ InSeq(linkToId[l], unpublished)

\* one link exists after a completed addStory while another call was
\* stopped after its record write
C33_Witness ==
  /\ lastOp.op = "stopped"
  /\ \E l \in Links : exists(l)
  /\ \E i \in DOMAIN story :
       /\ \A l \in Links : linkToId[l] # i
       /\ ~InSeq(i, unpublished)

\* ------------------------------------------------------------------------
\* Which classifier calls a Filter run makes
\* ------------------------------------------------------------------------
current(r) == flog[r][Len(flog[r])]

\* C32: in a Filter run no classifier is called for an article whose link
\* already exists, the similarity classifier is called only after the
\* relevance check accepted the article, and each classifier is called at most
\* once per article: the relevance call is made for an article found absent
\* and not yet classified, the similarity call for an article whose relevance
\* answer was accepted and that has no similarity answer yet, and after either
\* call the run goes on or fails, never back.
C32_ClassifierCalls ==
  [][\A r \in Runs :
       /\ (fpc[r] = "relevance" /\ fpc'[r] # "relevance")
            => /\ ~current(r).existed
               /\ current(r).rel = NoRelevance
               /\ fpc'[r] \in {"similarity", "exists", "failed"}
       /\ (fpc[r] = "similarity" /\ fpc'[r] # "similarity")
            => /\ ~current(r).existed
               /\ current(r).rel # NoRelevance
               /\ ~relevanceRejects(current(r).rel)
               /\ current(r).sim = NoSimilarity
               /\ fpc'[r] \in {"add", "exists", "failed"}
       /\ (fpc[r] # "relevance" /\ fpc'[r] = "relevance")
            => /\ fpc[r] = "exists"
               /\ Len(flog'[r]) = Len(flog[r]) + 1
       /\ (fpc[r] # "similarity" /\ fpc'[r] = "similarity")
            => fpc[r] = "relevance"]_vars

\* one article was skipped as existing without a classifier answer, another
\* got one relevance and one similarity answer against a non-empty corpus
C32_Witness ==
  \E j \in DOMAIN flog[1], k \in DOMAIN flog[1] :
    /\ flog[1][j].existed
    /\ flog[1][j].rel = NoRelevance
    /\ flog[1][j].sim = NoSimilarity
    /\ ~flog[1][k].existed
    /\ flog[1][k].rel # NoRelevance
    /\ flog[1][k].sim # NoSimilarity
    /\ flog[1][k].corpus # <<>>

\* ------------------------------------------------------------------------
\* exists and getStory
\* ------------------------------------------------------------------------
\* C34: after any sequence of completed store operations and any passage of
\* days, exists(link) is true if and only if getStory(link) returns a story,
\* in the indexed store and in the daily-collection store.
C34_ExistsIffGetStory ==
  \A l \in Links :
    /\ exists(l) <=> getStory(l) # <<>>
    /\ dailyExists(l) <=> dailyGetStory(l) # <<>>

\* the indexed store alone
C34_IndexedExistsIffGetStory ==
  \A l \in Links : exists(l) <=> getStory(l) # <<>>

\* ------------------------------------------------------------------------
\* Duplicates in the status indexes
\* ------------------------------------------------------------------------
\* C35: after any sequence of store operations of a single writer, neither
\* the unpublished nor the published index holds an id twice, so
\* getUnpublished and getPublished return each story at most once.
C35_NoDuplicateIds ==
  \A id \in DOMAIN story :
    /\ Count(id, unpublished) <= 1
    /\ Count(id, published) <= 1
    /\ Count(id, getUnpublishedStories) <= 1
    /\ Count(id, getPublishedStories) <= 1

\* ------------------------------------------------------------------------
\* What updateStory leaves alone
\* ------------------------------------------------------------------------
\* C36: updateStory replaces only the record stored under the id its link
\* maps to; the link entries, every date index and the unpublished and
\* published indexes are unchanged, whatever published or date_added value
\* the supplied story carries.
C36_UpdateReplacesRecordOnly ==
  [][\A l \in Links :
       (IsStep("updateStory", l) /\ exists(l))
         => /\ UNCHANGED <<linkToId, dateIdx, unpublished, published>>
            /\ DOMAIN story' = DOMAIN story
            /\ \A i \in DOMAIN story : i # linkToId[l] => story'[i] = story[i]
            /\ story'[linkToId[l]].link = l]_vars

\* an update stored a record that says published and carries a later
\* date_added, while its id is in the unpublished index and under the date
\* index of the day it was added
C36_Witness ==
  /\ lastOp.op = "updateStory" /\ lastOp.ok
  /\ LET id == linkToId[lastOp.link] IN
       /\ story[id].published
       /\ InSeq(id, unpublished)
       /\ ~InSeq(id, published)
       /\ DayOf(story[id].date_added) # addedDay[id]
       /\ InSeq(id, dateIdx[addedDay[id]])

\* ------------------------------------------------------------------------
\* Two Filter runs and one link
\* ------------------------------------------------------------------------
recordsOf(cols, l) ==
  {<<d, k>> \in Days \X (1..MaxStories) : k \in DOMAIN cols[d] /\ cols[d][k].link = l}

\* C37: when two Filter runs process an article with the same link
\* concurrently, both can pass the exists check before either writes the link
\* entry: a run that found the link absent adds its story without looking
\* again, so each such run leaves one more record for that link.
C37_AddAfterStaleCheck ==
  [][\A r \in Runs :
       (fpc[r] = "add" /\ fpc'[r] # "add")
         => /\ ~current(r).existed
            /\ Cardinality(recordsOf(collections', article(r)))
                 = Cardinality(recordsOf(collections, article(r))) + 1]_vars

\* both runs found the same link absent, both added it: two records of the
\* one link
C37_Witness ==
  /\ fbatch[1] = fbatch[2]
  /\ Len(flog[1]) = 1 /\ Len(flog[2]) = 1
  /\ flog[1][1].created /\ flog[2][1].created
  /\ Cardinality(recordsOf(collections, fbatch[1][1])) = 2

\* ------------------------------------------------------------------------
\* One link twice in a batch
\* ------------------------------------------------------------------------
\* C38: under a single writer, when one batch contains the same link more
\* than once, a Filter run creates at most one story for it: once an
\* occurrence has been added, every later occurrence is skipped by the
\* existence check and gets no classifier call.
C38_RepeatedLinkAddedOnce ==
  \A r \in Writer :
    \A j \in DOMAIN flog[r], k \in DOMAIN flog[r] :
      (j < k /\ flog[r][j].link = flog[r][k].link /\ flog[r][j].created)
        => /\ flog[r][k].existed
           /\ ~flog[r][k].created
           /\ flog[r][k].rel = NoRelevance
           /\ flog[r][k].sim = NoSimilarity

\* the run added the first occurrence of a link and skipped the second
C38_Witness ==
  /\ Len(flog[1]) = 2
  /\ fbatch[1][1] = fbatch[1][2]
  /\ flog[1][1].created
  /\ flog[1][2].existed
  /\ Len(fout[1]) = 1
  /\ fpc[1] = "done"

\* ------------------------------------------------------------------------
\* What a PodcastVoice answer says about the store
\* ------------------------------------------------------------------------
\* C39: a PodcastVoice run answers success with an audioUrl only if the
\* stored transcript for the transcript's creation date then has audio_url
\* equal to that URL; when the upload or the store update fails it answers
\* success = false and leaves the stored audio_url unchanged; when the
\* transcript already has an audio_url it makes no synthesis call, no upload
\* and no store write.
C39_VoiceAnswerMatchesStore ==
  [][IsStep("PodcastVoice", 0)
       => /\ successField(presp'.kind) = "true"
               => /\ transcripts'[lastOp'.date] # <<>>
                  /\ transcripts'[lastOp'.date][1].audio_url = presp'.audioUrl
          /\ ("uploadToR2" \in lastOp'.calls /\ presp'.kind # "success")
               => /\ successField(presp'.kind) = "false"
                  /\ transcripts' = transcripts
          /\ presp'.kind = "already"
               => /\ lastOp'.calls = {}
                  /\ transcripts' = transcripts]_vars

====
